---- MODULE Spec2Model ----
(***************************************************************************)
(* Language negotiation (src/negotiate/mod.rs): filter_matches and         *)
(* negotiate_languages.                                                    *)
(*                                                                         *)
(* A locale tag string is modelled as the sequence of its subtags          *)
(* ("en-US" is <<"en", "US">>, the empty string is <<>>).  The Locale      *)
(* type and the likely-subtags table live outside negotiate/mod.rs; they   *)
(* are modelled from their documented contract.                            *)
(***************************************************************************)
EXTENDS Integers, Sequences, FiniteSets, TLC

VARIABLES
    requested,          \* parameter `requested` of negotiate_languages
    available_arg,      \* parameter `available` of negotiate_languages
    default,            \* parameter `default`: None or a tag string
    strategy,           \* parameter `strategy`
    available_locales,  \* HashMap<&str, Locale> of filter_matches
    available,          \* the local Vec `available` of filter_matches (the pool)
    supported_locales,  \* the accumulator of filter_matches
    idx,                \* position of the `for req_loc_str in requested` loop
    requested_locale,   \* the local `requested_locale`
    match_found,        \* the local `match_found`
    supported,          \* the Vec returned by negotiate_languages
    pc,                 \* position in the code
    available_pos,      \* history: for each pool entry, its index in available_arg
    sup_log,            \* history: for each pushed tag, who pushed it
    scan,               \* history: the last retain() scan that was executed
    steps               \* history: the number of steps the call has taken

vars == <<requested, available_arg, default, strategy, available_locales,
          available, supported_locales, idx, requested_locale, match_found,
          supported, pc, available_pos, sup_log, scan, steps>>

-----------------------------------------------------------------------------
(* Bounds of the model *)

MaxRequested == 2
MaxAvailable == 2

-----------------------------------------------------------------------------
(* Subtags and tag strings *)

\* an absent subtag of a Locale (Option::None)
None == "None"
\* an absent tag string (Option::None of `default` and of the maximizer)
NoTag == <<"None">>

Languages == {"en", "fr"}
Scripts == {"Latn"}
Regions == {"US", "GB", "FR"}
Variants == {"win"}

EmptyTag == <<>>

\* The requested tags callers pass in: "", "!!" (malformed), "en", "en-GB",
\* "fr".
RequestedTags ==
    { EmptyTag, <<"!!">>, <<"en">>, <<"en", "GB">>, <<"fr">> }

\* The available tags callers pass in: "!!" (malformed), "en", "en-US",
\* "en-US-win".
AvailableTags ==
    { <<"!!">>, <<"en">>, <<"en", "US">>, <<"en", "US", "win">> }

DefaultChoices == { NoTag, <<"en", "US">> }

Strategies == {"Filtering", "Matching", "Lookup"}

SeqsUpTo(S, n) == UNION { [1..k -> S] : k \in 0..n }

-----------------------------------------------------------------------------
(* Locale: the parsed form of a tag *)

DefaultLocale == [language |-> None, script |-> None, region |-> None,
                  variants |-> <<>>]

ParseErr == [ok |-> FALSE, loc |-> DefaultLocale]

\* stage 1: a script, a region or a variant may follow; 2: a region or a
\* variant; 3: only variants.
RECURSIVE ParseRest(_, _, _, _)
ParseRest(tag, k, loc, stage) ==
    IF k > Len(tag) THEN [ok |-> TRUE, loc |-> loc]
    ELSE LET t == tag[k] IN
         IF stage <= 1 /\ t \in Scripts
         THEN ParseRest(tag, k + 1, [loc EXCEPT !.script = t], 2)
         ELSE IF stage <= 2 /\ t \in Regions
         THEN ParseRest(tag, k + 1, [loc EXCEPT !.region = t], 3)
         ELSE IF t \in Variants
         THEN ParseRest(tag, k + 1,
                        [loc EXCEPT !.variants = Append(@, t)], 3)
         ELSE ParseErr

\* Locale::new(tag, None): Ok(loc) or Err
LocaleNew(tag) ==
    IF Len(tag) = 0 \/ tag[1] \notin Languages THEN ParseErr
    ELSE ParseRest(tag, 2, [DefaultLocale EXCEPT !.language = tag[1]], 1)

\* Locale::from(tag): never fails, a malformed tag gives the empty locale
LocaleFrom(tag) == LocaleNew(tag).loc

Opt(x) == IF x = None THEN <<>> ELSE <<x>>

\* Locale::to_string
LocaleToString(loc) ==
    Opt(loc.language) \o Opt(loc.script) \o Opt(loc.region) \o loc.variants

\* Locale::clear_variants
ClearVariants(loc) == [loc EXCEPT !.variants = <<>>]

\* Locale::set_region(""): clears the region, always Ok
ClearRegion(loc) == [loc EXCEPT !.region = None]

SubtagMatches(a, r, absent, available_range, requested_range) ==
    \/ available_range /\ a = absent
    \/ requested_range /\ r = absent
    \/ a = r

\* Locale::matches, called on the available locale with the requested
\* locale as argument.  (false, false) is equality of the parsed tags; a
\* range flag makes the subtags absent on that side wildcards.  The side
\* each flag stands for is the one the module documentation of
\* negotiate/mod.rs gives: tier 2 treats the available locale as a range
\* ("en" becomes "en-*-*-*"), tiers 4 and 6 also the requested one
\* ("ja-JP-*", "en-*").
Matches(avail_loc, req_loc, available_range, requested_range) ==
    /\ SubtagMatches(avail_loc.language, req_loc.language, None,
                     available_range, requested_range)
    /\ SubtagMatches(avail_loc.script, req_loc.script, None,
                     available_range, requested_range)
    /\ SubtagMatches(avail_loc.region, req_loc.region, None,
                     available_range, requested_range)
    /\ SubtagMatches(avail_loc.variants, req_loc.variants, <<>>,
                     available_range, requested_range)

\* likely_subtags::add: the maximized tag, or None when the table has no
\* entry for the tag
LikelySubtagsAdd(tag) ==
    IF tag = <<"en">> THEN <<"en", "Latn", "US">>
    ELSE IF tag = <<"fr">> THEN <<"fr", "Latn", "FR">>
    ELSE NoTag

-----------------------------------------------------------------------------
(* Helpers on sequences *)

Range(s) == { s[k] : k \in DOMAIN s }

RECURSIVE Drop(_, _, _)
\* s without the elements at the indexes in the set K
Drop(s, K, k) ==
    IF k > Len(s) THEN <<>>
    ELSE (IF k \in K THEN <<>> ELSE <<s[k]>>) \o Drop(s, K, k + 1)

-----------------------------------------------------------------------------
(* One retain() scan of the pool *)

\* a scan that never stops taking entries, whatever the strategy
KeepUntested_Never(strat, found) == FALSE

\* a scan that stops at its first match under every strategy
KeepUntested_AnyStrategy(strat, found) == found

\* the guard that opens every retain closure: keep the entry untested
KeepUntested(strat, found) == strat # "Filtering" /\ found

\* c: [pool, locales, ref, available_range, requested_range, strategy]
\* acc: [removed: the indexes pushed so far, found: match_found, panic]
RECURSIVE RetainScan(_, _, _)
RetainScan(c, k, acc) ==
    IF k > Len(c.pool) \/ acc.panic THEN acc
    ELSE LET key == c.pool[k] IN
         IF KeepUntested(c.strategy, acc.found)
         THEN RetainScan(c, k + 1, acc)
         ELSE IF key \notin DOMAIN c.locales
         THEN [acc EXCEPT !.panic = TRUE]
         ELSE IF Matches(c.locales[key], c.ref, c.available_range,
                         c.requested_range)
         THEN RetainScan(c, k + 1, [acc EXCEPT !.removed = Append(@, k),
                                               !.found = TRUE])
         ELSE RetainScan(c, k + 1, acc)

\* insert(0, key) in place of push(key)
Push_Front(list, key) == <<key>> \o list

\* supported_locales.push(*key)
Push(list, key) == Append(list, key)

\* pushing the reference tag the entry matched, serialized
PushedValue_Reference(key, ref) == LocaleToString(ref)

\* what the closure pushes for a matching entry: the available key itself
PushedValue(key, ref) == key

RECURSIVE PushAll(_, _)
PushAll(list, keys) ==
    IF keys = <<>> THEN list ELSE PushAll(Push(list, Head(keys)), Tail(keys))

\* The frame of filter_matches after `available.retain(...)` with the
\* reference locale ref and the two range flags.  f.requested_locale and
\* f.match_found are those the scan starts with.
Retain(f, ref, available_range, requested_range, strat, locales, i, tier) ==
    LET c == [pool |-> f.available, locales |-> locales, ref |-> ref,
              available_range |-> available_range,
              requested_range |-> requested_range, strategy |-> strat]
        r == RetainScan(c, 1, [removed |-> <<>>, found |-> f.match_found,
                               panic |-> FALSE])
        gone == Range(r.removed)
        keys == [k \in DOMAIN r.removed |->
                    PushedValue(f.available[r.removed[k]], ref)]
        logs == [k \in DOMAIN r.removed |->
                    [req |-> i, tier |-> tier,
                     pos |-> f.available_pos[r.removed[k]]]]
    IN [f EXCEPT !.available = Drop(f.available, gone, 1),
                 !.available_pos = Drop(f.available_pos, gone, 1),
                 !.supported_locales = PushAll(@, keys),
                 !.sup_log = PushAll(@, logs),
                 !.match_found = r.found,
                 !.panic = r.panic,
                 !.scan = [tier |-> tier, req |-> i, ref |-> ref,
                           available_range |-> available_range,
                           requested_range |-> requested_range,
                           pool |-> f.available,
                           sup |-> f.supported_locales]]

NoScan == [tier |-> 0, req |-> 0, ref |-> DefaultLocale,
           available_range |-> FALSE, requested_range |-> FALSE,
           pool |-> <<>>, sup |-> <<>>]

\* the frame with no scan run (a tier whose maximization misses)
Skip(f) == f

\* The six tiers: the reference locale each one derives, and its scan.
Tier(n, f, strat, locales, i) ==
    IF n = 1 THEN
        Retain(f, f.requested_locale, FALSE, FALSE, strat, locales, i, 1)
    ELSE IF n = 2 THEN
        Retain(f, f.requested_locale, TRUE, FALSE, strat, locales, i, 2)
    ELSE IF n = 3 THEN
        LET g == [f EXCEPT !.match_found = FALSE]
            extended == LikelySubtagsAdd(LocaleToString(g.requested_locale))
        IN IF extended # NoTag
           THEN LET h == [g EXCEPT !.requested_locale = LocaleFrom(extended)]
                IN Retain(h, h.requested_locale, TRUE, FALSE, strat, locales,
                          i, 3)
           ELSE Skip(g)
    ELSE IF n = 4 THEN
        LET g == [f EXCEPT !.match_found = FALSE,
                           !.requested_locale = ClearVariants(@)]
        IN Retain(g, g.requested_locale, TRUE, TRUE, strat, locales, i, 4)
    ELSE IF n = 5 THEN
        LET g == [f EXCEPT !.match_found = FALSE,
                           !.requested_locale = ClearRegion(@)]
            extended == LikelySubtagsAdd(LocaleToString(g.requested_locale))
        IN IF extended # NoTag
           THEN Retain(g, LocaleFrom(extended), TRUE, FALSE, strat, locales,
                       i, 5)
           ELSE Skip(g)
    ELSE
        LET g == [f EXCEPT !.match_found = FALSE,
                           !.requested_locale = ClearRegion(@)]
        IN Retain(g, g.requested_locale, TRUE, TRUE, strat, locales, i, 6)

\* Lookup handled like Matching: `continue` where the code has `break`
Gate_LookupContinues(strat, found) ==
    IF ~found THEN "next"
    ELSE IF strat = "Filtering" THEN "next"
    ELSE "continue"

\* `if match_found { match *strategy {...} }` after a tier:
\* "next" falls through to the next tier, "continue" goes to the next
\* requested tag, "break" leaves the loop.
Gate(strat, found) ==
    IF ~found THEN "next"
    ELSE IF strat = "Filtering" THEN "next"
    ELSE IF strat = "Matching" THEN "continue"
    ELSE "break"

TierPc(n) == IF n = 1 THEN "t1" ELSE IF n = 2 THEN "t2"
             ELSE IF n = 3 THEN "t3" ELSE IF n = 4 THEN "t4"
             ELSE IF n = 5 THEN "t5" ELSE "t6"

AfterTier(n, strat, found) ==
    LET g == Gate(strat, found) IN
    IF g = "break" THEN "ret"
    ELSE IF g = "continue" \/ n = 6 THEN "loop"
    ELSE TierPc(n + 1)

-----------------------------------------------------------------------------
(* negotiate_languages: the default locale *)

Contains(list, d) == \E k \in DOMAIN list : list[k] = d

\* the Lookup arm dropped: the default appended whenever it is not there yet
DefaultInsert_NoLookupArm(list, d, strat) ==
    IF d = NoTag THEN list
    ELSE IF ~Contains(list, d) THEN Append(list, d)
    ELSE list

DefaultInsert(list, d, strat) ==
    IF d = NoTag THEN list
    ELSE IF strat = "Lookup"
    THEN (IF list = <<>> THEN Append(list, d) ELSE list)
    ELSE IF ~Contains(list, d) THEN Append(list, d)
    ELSE list

-----------------------------------------------------------------------------
(* The state machine *)

\* the Err arm returning true: tags that do not parse stay in the pool
RetainParsed_KeepAll(tag) == TRUE

\* the two arms swapped
RetainParsed_Inverted(tag) == ~LocaleNew(tag).ok

\* the closure of the first retain: keep the tags that parse
RetainParsed(tag) == LocaleNew(tag).ok

\* the pool after `available.retain(|tag| match Locale::new(tag, None) ...)`
ParsedPool(avail) ==
    Drop(avail, { k \in DOMAIN avail : ~RetainParsed(avail[k]) }, 1)

\* for each entry of that pool, its index in the caller's list
ParsedPositions(avail) ==
    Drop([k \in DOMAIN avail |-> k],
         { k \in DOMAIN avail : ~RetainParsed(avail[k]) }, 1)

\* the map filled by the Ok arm of that closure
ParsedLocales(avail) ==
    [t \in { avail[k] : k \in { j \in DOMAIN avail : LocaleNew(avail[j]).ok } }
        |-> LocaleNew(t).loc]

\* the empty-string check left out
IsSkipped_Never(req) == FALSE

\* `if req_loc_str.is_empty() { continue; }`
IsSkipped(req) == req = EmptyTag

Frame == [available |-> available, available_pos |-> available_pos,
          supported_locales |-> supported_locales, sup_log |-> sup_log,
          requested_locale |-> requested_locale,
          match_found |-> match_found, panic |-> FALSE, scan |-> scan]

SetFrame(f) ==
    /\ available' = f.available
    /\ available_pos' = f.available_pos
    /\ supported_locales' = f.supported_locales
    /\ sup_log' = f.sup_log
    /\ requested_locale' = f.requested_locale
    /\ match_found' = f.match_found
    /\ scan' = f.scan

Init ==
    /\ requested \in SeqsUpTo(RequestedTags, MaxRequested)
    /\ available_arg \in SeqsUpTo(AvailableTags, MaxAvailable)
    /\ default \in DefaultChoices
    /\ strategy \in Strategies
    /\ available_locales = <<>>
    /\ available = <<>>
    /\ available_pos = <<>>
    /\ supported_locales = <<>>
    /\ sup_log = <<>>
    /\ idx = 0
    /\ requested_locale = DefaultLocale
    /\ match_found = FALSE
    /\ supported = <<>>
    /\ scan = NoScan
    /\ steps = 0
    /\ pc = "start"

\* filter_matches, up to the loop: the map of the parsed available tags and
\* the pool of the tags that parsed
Preprocess ==
    /\ pc = "start"
    /\ available' = ParsedPool(available_arg)
    /\ available_pos' = ParsedPositions(available_arg)
    /\ available_locales' = ParsedLocales(available_arg)
    /\ pc' = "loop"
    /\ steps' = steps + 1
    /\ UNCHANGED <<requested, available_arg, default, strategy,
                   supported_locales, idx, requested_locale, match_found,
                   supported, sup_log, scan>>

\* the head of `for req_loc_str in requested`, up to the first tier
NextRequested ==
    /\ pc = "loop"
    /\ IF idx = Len(requested)
       THEN /\ pc' = "ret"
            /\ UNCHANGED <<idx, requested_locale, match_found>>
       ELSE /\ idx' = idx + 1
            /\ IF IsSkipped(requested[idx + 1])
               THEN /\ pc' = "loop"
                    /\ UNCHANGED <<requested_locale, match_found>>
               ELSE /\ requested_locale' = LocaleFrom(requested[idx + 1])
                    /\ match_found' = FALSE
                    /\ pc' = "t1"
    /\ steps' = steps + 1
    /\ UNCHANGED <<requested, available_arg, default, strategy,
                   available_locales, available, supported_locales,
                   supported, available_pos, sup_log, scan>>

\* tier n of the current requested tag, with the strategy gate after it
RunTier(n) ==
    /\ pc = TierPc(n)
    /\ LET f == Tier(n, Frame, strategy, available_locales, idx)
       IN /\ SetFrame(f)
          /\ pc' = IF f.panic THEN "panic"
                   ELSE AfterTier(n, strategy, f.match_found)
    /\ steps' = steps + 1
    /\ UNCHANGED <<requested, available_arg, default, strategy,
                   available_locales, idx, supported>>

Tier1 == RunTier(1)
Tier2 == RunTier(2)
Tier3 == RunTier(3)
Tier4 == RunTier(4)
Tier5 == RunTier(5)
Tier6 == RunTier(6)

\* filter_matches returns and negotiate_languages adds the default
NegotiateReturn ==
    /\ pc = "ret"
    /\ supported' = DefaultInsert(supported_locales, default, strategy)
    /\ pc' = "done"
    /\ steps' = steps + 1
    /\ UNCHANGED <<requested, available_arg, default, strategy,
                   available_locales, available, supported_locales, idx,
                   requested_locale, match_found, available_pos, sup_log,
                   scan>>

Next ==
    \/ Preprocess
    \/ NextRequested
    \/ Tier1
    \/ Tier2
    \/ Tier3
    \/ Tier4
    \/ Tier5
    \/ Tier6
    \/ NegotiateReturn

Spec == Init /\ [][Next]_vars

TypeOK ==
    /\ pc \in {"start", "loop", "t1", "t2", "t3", "t4", "t5", "t6", "ret",
               "done", "panic"}
    /\ idx \in 0..Len(requested)
    /\ match_found \in BOOLEAN
    /\ Len(available) = Len(available_pos)
    /\ Len(supported_locales) = Len(sup_log)

-----------------------------------------------------------------------------
(* The same code as operators: one call from its arguments to its result *)

\* the tiers n..6 of requested tag i: the frame after them, and whether the
\* loop was left by `break`
RECURSIVE RunTiers(_, _, _, _, _)
RunTiers(n, f, strat, locales, i) ==
    LET g == Tier(n, f, strat, locales, i)
        nxt == AfterTier(n, strat, g.match_found)
    IN IF g.panic \/ nxt = "ret" THEN [f |-> g, stop |-> TRUE]
       ELSE IF nxt = "loop" THEN [f |-> g, stop |-> FALSE]
       ELSE RunTiers(n + 1, g, strat, locales, i)

RECURSIVE RequestedLoop(_, _, _, _, _)
RequestedLoop(reqs, i, f, strat, locales) ==
    IF i > Len(reqs) THEN f
    ELSE IF IsSkipped(reqs[i])
    THEN RequestedLoop(reqs, i + 1, f, strat, locales)
    ELSE LET r == RunTiers(1, [f EXCEPT !.requested_locale = LocaleFrom(reqs[i]),
                                        !.match_found = FALSE],
                           strat, locales, i)
         IN IF r.stop THEN r.f
            ELSE RequestedLoop(reqs, i + 1, r.f, strat, locales)

FilterMatches(reqs, avail, strat) ==
    RequestedLoop(reqs, 1,
                  [available |-> ParsedPool(avail),
                   available_pos |-> ParsedPositions(avail),
                   supported_locales |-> <<>>, sup_log |-> <<>>,
                   requested_locale |-> DefaultLocale, match_found |-> FALSE,
                   panic |-> FALSE, scan |-> NoScan],
                  strat, ParsedLocales(avail)).supported_locales

NegotiateLanguages(reqs, avail, d, strat) ==
    DefaultInsert(FilterMatches(reqs, avail, strat), d, strat)

\* the two renderings of the code agree
OperatorAgrees ==
    pc = "done" =>
        supported = NegotiateLanguages(requested, available_arg, default,
                                       strategy)

-----------------------------------------------------------------------------
(* Vocabulary of the properties *)

\* the indexes of the caller's available list whose tag parses
ParsedIdx == { k \in DOMAIN available_arg : LocaleNew(available_arg[k]).ok }

ParsedAvailable == { available_arg[k] : k \in ParsedIdx }

\* requested entry i pushed at least one tag
Contributed(i) == \E k \in DOMAIN sup_log : sup_log[k].req = i

RemoveAt(s, i) == SubSeq(s, 1, i - 1) \o SubSeq(s, i + 1, Len(s))

IsPrefix(s, t) == Len(s) <= Len(t) /\ SubSeq(t, 1, Len(s)) = s

InTier == pc \in {"t1", "t2", "t3", "t4", "t5", "t6"}

\* the entries of the pool the last scan started with that match its
\* reference tag under its comparison mode
ScanMatching ==
    { k \in DOMAIN scan.pool :
        /\ scan.pool[k] \in DOMAIN available_locales
        /\ Matches(available_locales[scan.pool[k]], scan.ref,
                   scan.available_range, scan.requested_range) }

Least(S) == CHOOSE k \in S : \A j \in S : k <= j

\* the last scan took exactly the pool entries at the indexes in T
ScanTook(T) ==
    /\ supported_locales = scan.sup \o Drop(scan.pool, DOMAIN scan.pool \ T, 1)
    /\ available = Drop(scan.pool, T, 1)

-----------------------------------------------------------------------------
(* C1 *)

\* C1: the list negotiate_languages returns contains no string twice.
C1_NoStringTwice ==
    pc = "done" =>
        \A j, k \in DOMAIN supported : j # k => supported[j] # supported[k]

-----------------------------------------------------------------------------
(* C2 *)

\* C2: every tag filter_matches accumulates is the caller's own available
\* string at some index whose tag parses, and the returned list holds only
\* such strings and, as its last element, possibly the default; no reference
\* tag is serialized into the output.
C2_OnlyParsedAvailableOrDefault ==
    /\ \A k \in DOMAIN supported_locales :
          /\ sup_log[k].pos \in ParsedIdx
          /\ supported_locales[k] = available_arg[sup_log[k].pos]
    /\ pc = "done" =>
          \A k \in DOMAIN supported :
              \/ supported[k] \in ParsedAvailable
              \/ default # NoTag /\ k = Len(supported) /\ supported[k] = default

\* a finished call that matched through a derived reference tag (tier 3 or
\* later) while the available list held a tag that does not parse
C2_Witness ==
    /\ pc = "done"
    /\ \E k \in DOMAIN sup_log : sup_log[k].tier >= 3
    /\ \E k \in DOMAIN available_arg : k \notin ParsedIdx

-----------------------------------------------------------------------------
(* C3 *)

\* C3: the returned list is the Supported List, followed by the default
\* exactly when a default is given and (Lookup) the Supported List is empty
\* or (Filtering, Matching) the default does not occur in it.
C3_DefaultInsertion ==
    pc = "done" =>
        LET appended ==
              /\ default # NoTag
              /\ IF strategy = "Lookup" THEN supported_locales = <<>>
                 ELSE default \notin Range(supported_locales)
        IN supported = IF appended THEN supported_locales \o <<default>>
                       ELSE supported_locales

\* Lookup with a default that is not among the matched tags: not appended
C3_Witness ==
    /\ pc = "done"
    /\ strategy = "Lookup"
    /\ default # NoTag
    /\ supported_locales # <<>>
    /\ default \notin Range(supported_locales)

-----------------------------------------------------------------------------
(* C4 *)

\* C4: under Lookup the Supported List never holds more than one tag; once
\* it holds one, the loop has been left at the requested entry that pushed
\* it, and no earlier requested entry matches anything in the pool; when the
\* loop ends with no tag, no requested entry matches anything.
C4_LookupFirstMatch ==
    strategy = "Lookup" =>
        /\ Len(supported_locales) <= 1
        /\ Len(supported_locales) = 1 =>
              /\ pc \in {"ret", "done"}
              /\ sup_log[1].req = idx
              /\ \A j \in 1..(idx - 1) :
                    FilterMatches(<<requested[j]>>, available_arg,
                                  "Filtering") = <<>>
        /\ (pc \in {"ret", "done"} /\ supported_locales = <<>>) =>
              \A j \in DOMAIN requested :
                  FilterMatches(<<requested[j]>>, available_arg,
                                "Filtering") = <<>>

\* Lookup stopped at the first of two requested entries although the second
\* one matches what is left of the pool
C4_Witness ==
    /\ pc = "done"
    /\ strategy = "Lookup"
    /\ Len(supported_locales) = 1
    /\ idx = 1
    /\ Len(requested) = 2
    /\ FilterMatches(<<requested[2]>>, available, "Filtering") # <<>>

-----------------------------------------------------------------------------
(* C5 *)

\* C5: under Matching every requested entry pushes at most one tag, the
\* later tiers of an entry run only while it has pushed none, the loop is
\* left only after the last requested entry, and the matched tags are no
\* more than the non-empty requested entries.
C5_MatchingOnePerRequested ==
    strategy = "Matching" =>
        /\ \A i \in DOMAIN requested :
              Cardinality({ k \in DOMAIN sup_log : sup_log[k].req = i }) <= 1
        /\ InTier => ~Contributed(idx)
        /\ pc = "ret" => idx = Len(requested)
        /\ Len(supported_locales) <=
              Cardinality({ i \in DOMAIN requested : requested[i] # EmptyTag })

\* Matching with two requested entries that pushed one tag each, where the
\* first entry alone matches both tags under Filtering
C5_Witness ==
    /\ pc = "done"
    /\ strategy = "Matching"
    /\ Len(sup_log) = 2
    /\ sup_log[1].req = 1
    /\ sup_log[2].req = 2
    /\ Len(FilterMatches(<<requested[1]>>, available_arg, "Filtering")) = 2

-----------------------------------------------------------------------------
(* C6 *)

\* C6: no lookup of a pool entry in the parsed-available map misses (every
\* string in the pool is a key of the map), a call is always either finished
\* or at a position where its next step is taken unconditionally, and it
\* takes at most seven steps per requested entry and three more, so it ends
\* with a returned list.
C6_NeverFails ==
    /\ pc # "panic"
    /\ pc # "start" => Range(available) \subseteq DOMAIN available_locales
    /\ pc \in {"start", "loop", "ret", "done"} \/ InTier
    /\ steps <= 7 * Len(requested) + 3
    /\ pc = "done" => supported \in Seq(AvailableTags
                                            \cup DefaultChoices)

\* a finished call with a malformed available tag and a malformed requested
\* tag that was run through the tiers
C6_Witness ==
    /\ pc = "done"
    /\ \E k \in DOMAIN available_arg : k \notin ParsedIdx
    /\ \E i \in 1..idx : requested[i] # EmptyTag /\ ~LocaleNew(requested[i]).ok
    /\ supported_locales # <<>>

-----------------------------------------------------------------------------
(* C7 *)

LogBefore(a, b) ==
    \/ a.req < b.req
    \/ a.req = b.req /\ a.tier < b.tier
    \/ a.req = b.req /\ a.tier = b.tier /\ a.pos < b.pos

\* C7: the Supported List is ordered by requested entry, then by tier, then
\* by position in the caller's available list; the pool keeps the caller's
\* order; the returned list starts with the Supported List.
C7_DiscoveryOrder ==
    /\ \A j, k \in DOMAIN sup_log :
          j < k => LogBefore(sup_log[j], sup_log[k])
    /\ \A k \in DOMAIN sup_log :
          supported_locales[k] = available_arg[sup_log[k].pos]
    /\ \A j, k \in DOMAIN available_pos :
          j < k => available_pos[j] < available_pos[k]
    /\ \A k \in DOMAIN available :
          available[k] = available_arg[available_pos[k]]
    /\ pc = "done" => IsPrefix(supported_locales, supported)

\* one requested entry whose later tier took the earlier available tag:
\* the output order is not the order of the available list
C7_Witness ==
    /\ pc = "done"
    /\ Len(sup_log) = 2
    /\ sup_log[1].req = sup_log[2].req
    /\ sup_log[1].tier < sup_log[2].tier
    /\ sup_log[1].pos > sup_log[2].pos

-----------------------------------------------------------------------------
(* C8 *)

SingleSelfCall ==
    /\ pc = "done"
    /\ Len(requested) = 1
    /\ available_arg = requested
    /\ default = NoTag
    /\ strategy = "Filtering"

\* C8 as written: for all tags t, negotiate([t], [t], None, Filtering) = [t].
C8_AllTags == SingleSelfCall => supported = requested

\* C8: for every tag t that parses, negotiate([t], [t], None, Filtering)
\* = [t].
C8_ParsedTags ==
    (SingleSelfCall /\ LocaleNew(requested[1]).ok) => supported = requested

C8_Witness ==
    /\ SingleSelfCall
    /\ LocaleNew(requested[1]).ok
    /\ sup_log[1].tier = 1

-----------------------------------------------------------------------------
(* C9 *)

\* C9: the pool is the parsed available list minus the tags pushed so far,
\* in the caller's order, so an entry that pushes nothing leaves the pool as
\* it was; and the result of a call equals the result of the same call
\* without a requested entry that is empty, or that was run through the
\* tiers and pushed nothing.
C9_NoOpEntries ==
    /\ pc # "start" =>
          available_pos =
              Drop([k \in DOMAIN available_arg |-> k],
                   (DOMAIN available_arg \ ParsedIdx)
                       \cup { sup_log[k].pos : k \in DOMAIN sup_log }, 1)
    /\ pc = "done" =>
          \A i \in DOMAIN requested :
              (requested[i] = EmptyTag \/ (i <= idx /\ ~Contributed(i))) =>
                  supported = NegotiateLanguages(RemoveAt(requested, i),
                                                 available_arg, default,
                                                 strategy)

\* a non-empty requested entry that matched nothing, followed by an entry
\* that matched
C9_Witness ==
    /\ pc = "done"
    /\ \E i \in 1..(idx - 1) :
          /\ requested[i] # EmptyTag
          /\ ~Contributed(i)
          /\ Contributed(i + 1)

-----------------------------------------------------------------------------
(* C10 *)

\* the gate after a tier: under Matching and Lookup a later tier of a
\* requested entry is entered only while the entry has pushed nothing
GateAfterEachTier ==
    (InTier /\ strategy # "Filtering") => ~Contributed(idx)

\* C10 as written: after every executed scan, under every strategy, all
\* pool entries matching the tier's reference tag were pushed and removed,
\* and the strategy gate acts after each tier.
C10_EveryMatchTaken ==
    /\ (scan.tier # 0 /\ pc # "panic") => ScanTook(ScanMatching)
    /\ GateAfterEachTier

\* C10: after every executed scan, under Filtering all pool entries matching
\* the tier's reference tag were pushed and removed; under Matching and
\* Lookup only the first matching entry in pool order was; and the strategy
\* gate acts after each tier.
C10_FirstMatchUnlessFiltering ==
    /\ (scan.tier # 0 /\ pc # "panic") =>
          IF strategy = "Filtering" \/ ScanMatching = {}
          THEN ScanTook(ScanMatching)
          ELSE ScanTook({Least(ScanMatching)})
    /\ GateAfterEachTier

\* a Matching scan that met two matching entries
C10_Witness ==
    /\ scan.tier # 0
    /\ strategy = "Matching"
    /\ Cardinality(ScanMatching) >= 2

====
